---- MODULE Spec2Model ----
(***************************************************************************)
(* Verification model of the pitch application of speaky:                  *)
(*   - KeyPresses, the per-key interval set (apps/pitch/src/analysis.rs,   *)
(*     duplicated in apps/pitch/src/piano_roll.rs);                        *)
(*   - MidiPlayer::play_song / play_piano and the midi_thread dispatch     *)
(*     loop (apps/pitch/src/midi.rs);                                      *)
(*   - the Play / Stop buttons of Application::update (app.rs).            *)
(* Starts are whole milliseconds (KeyStart = u128 ms); durations and       *)
(* instants are whole microseconds (std::time::Duration / Instant).        *)
(***************************************************************************)
EXTENDS Integers, Sequences, FiniteSets, TLC

\* ------------------------------------------------------------------ bounds
\* number of add/remove calls explored on the KeyPresses set under test
MaxOps == 3
\* the user clicks during the first MaxTicks clock ticks; afterwards the
\* clock advances only while some task waits on a timer
MaxTicks == 2
\* Play Notes clicks (playback sessions) explored
MaxSongs == 2
\* clicks on a key press of the piano roll (play_piano) explored
MaxPiano == 1
\* edits of the caller's note map while a session is in flight
MaxEdits == 1
\* sends to the output connection that fail
MaxFail == 1
MaxPresses == 3

\* ------------------------------------------------------- units and inputs
UsPerMs == 1000

Ms(n) == n * UsPerMs

\* the clock of the scheduler model advances in steps of 100 ms: every
\* timer deadline explored is a multiple of it
TickUs == Ms(100)

\* Duration::as_millis: whole milliseconds, truncating
AsMillis(d) == d \div UsPerMs

\* starts (ms) and durations (us) of the presses handed to add / remove
PressStarts == {0, 100, 101, 200, 300}
PressDurations == {Ms(50), Ms(100), Ms(300), Ms(400)}
Intensities == {1, 2}

KeyPress(start, duration, intensity) ==
    [start |-> start, duration |-> duration, intensity |-> intensity]

Presses ==
    {KeyPress(s, d, i) : s \in PressStarts, d \in PressDurations, i \in Intensities}

SetMax(S) == CHOOSE x \in S : \A y \in S : y <= x
SetMin(S) == CHOOSE x \in S : \A y \in S : x <= y

\* --------------------------------------------------------------- KeyPresses
\* key_list : BTreeMap<KeyStart, KeyPressInfo>, a function start -> info
KeyPressesNew == [s \in {} |-> [duration |-> 0, intensity |-> 0]]

MapInsert(kl, k, v) == [x \in (DOMAIN kl) \cup {k} |-> IF x = k THEN v ELSE kl[x]]
MapRemove(kl, k) == [x \in (DOMAIN kl) \ {k} |-> kl[x]]

\* key_list.range_mut(..start).next_back()
RangeBefore(kl, start) == {s \in DOMAIN kl : s < start}
\* key_list.range(start..).next()
RangeFrom(kl, start) == {s \in DOMAIN kl : s >= start}

\* the press is inserted without looking at its neighbours
KeyPressesAddNoJoin(kl, kp) ==
    MapInsert(kl, kp.start, [duration |-> kp.duration, intensity |-> kp.intensity])

\* the previous interval is extended when it ends at most 1 ms before the press
KeyPressesAddJoinNear(kl, kp) ==
    LET prevs == RangeBefore(kl, kp.start)
        near == /\ prevs # {}
                /\ kp.start - (SetMax(prevs) + AsMillis(kl[SetMax(prevs)].duration)) \in {0, 1}
    IN  IF near
        THEN [kl EXCEPT ![SetMax(prevs)].duration = @ + kp.duration]
        ELSE MapInsert(kl, kp.start,
                       [duration |-> kp.duration, intensity |-> kp.intensity])

\* KeyPresses::add
KeyPressesAdd(kl, kp) ==
    LET prevs == RangeBefore(kl, kp.start)
        nexts == RangeFrom(kl, kp.start)
        joinPrev == /\ prevs # {}
                    /\ SetMax(prevs) + AsMillis(kl[SetMax(prevs)].duration) = kp.start
        joinNext == /\ nexts # {}
                    /\ kp.start + AsMillis(kp.duration) = SetMin(nexts)
    IN  IF joinPrev
        THEN [kl EXCEPT ![SetMax(prevs)].duration = @ + kp.duration]
        ELSE IF joinNext
             THEN MapInsert(MapRemove(kl, SetMin(nexts)), kp.start,
                            [duration |-> kp.duration + kl[SetMin(nexts)].duration,
                             intensity |-> kp.intensity])
             ELSE MapInsert(kl, kp.start,
                            [duration |-> kp.duration, intensity |-> kp.intensity])

\* the interval is removed only when the stored duration is the press's
KeyPressesRemoveExact(kl, kp) ==
    IF kp.start \in DOMAIN kl /\ kl[kp.start].duration = kp.duration
    THEN MapRemove(kl, kp.start)
    ELSE kl

\* KeyPresses::remove
KeyPressesRemove(kl, kp) == MapRemove(kl, kp.start)

\* KeyPresses::iter as the set of stored (start, info) presses
KeyPressesIter(kl) ==
    {KeyPress(s, kl[s].duration, kl[s].intensity) : s \in DOMAIN kl}

\* end of a stored interval in whole milliseconds, as add computes it
EndMs(kp) == kp.start + AsMillis(kp.duration)

\* ------------------------------------------------------------ note maps
\* BTreeMap<PianoKey, KeyPresses>: a function from a set of piano keys
NoKeys == [k \in {} |-> KeyPressesNew]

\* KeyPresses::from([..]) / from_iter / extend: add the presses in order
RECURSIVE KeyPressesExtend(_, _)
KeyPressesExtend(kl, seq) ==
    IF seq = <<>> THEN kl
    ELSE KeyPressesExtend(KeyPressesAdd(kl, Head(seq)), Tail(seq))

KeyPressesFrom(seq) == KeyPressesExtend(KeyPressesNew, seq)

\* piano keys used by the scheduler model (49 = A4)
A4 == 49
Keys == {A4, 50}

\* {A4: [(0 ms, 500 ms)]}
SingleNotes == (A4 :> KeyPressesFrom(<<KeyPress(0, Ms(500), 1)>>))

\* {A4: [(0 ms, 300 ms), (100 ms, 400 ms)]}, added in that order
OverlapNotes ==
    (A4 :> KeyPressesFrom(<<KeyPress(0, Ms(300), 1), KeyPress(100, Ms(400), 1)>>))

\* a long press of A4 and a short one that starts while the long one lasts
LongShortNotes ==
    (A4 :> KeyPressesFrom(<<KeyPress(0, Ms(300), 1), KeyPress(100, Ms(100), 1)>>))

\* two keys; the press of the higher key starts first and lasts longer
TwoKeyNotes ==
    (A4 :> KeyPressesFrom(<<KeyPress(100, Ms(100), 1)>>))
    @@ (50 :> KeyPressesFrom(<<KeyPress(0, Ms(300), 1)>>))

\* all (key, press) pairs of a note map: notes.iter().flat_map(..)
NotePairs(notes) ==
    UNION {{[key |-> k, press |-> kp] : kp \in KeyPressesIter(notes[k])} : k \in DOMAIN notes}

\* ------------------------------------------------------------------- midi
\* the offset between key numbers and note numbers is taken to be 40
MidiNoteFromPianoKeyShifted(key) == key + 40

\* MidiNote::from_piano_key: the number handed to MidiNote::new
MidiNoteFromPianoKey(key) == key + 20

\* Instant of a press's play-deadline:
\* start + Duration::from_secs_f32(keypress.start_secs()); the f32 rounding
\* of start/1000 is below one microsecond for the starts used here
PlayDeadline(start, kp) == start + Ms(kp.start)

\* Race::poll over the session's timers: futures are polled in iteration
\* order (key, then start); the first one that is ready wins
RaceDue(notes, start, t) == {p \in NotePairs(notes) : PlayDeadline(start, p.press) <= t}

PairBefore(p, q) ==
    \/ p.key < q.key
    \/ p.key = q.key /\ p.press.start <= q.press.start

RaceFirst(notes, start, t) ==
    CHOOSE p \in RaceDue(notes, start, t) : \A q \in RaceDue(notes, start, t) : PairBefore(p, q)

\* note_off : BTreeMap<MidiNote, Instant>, kept as a set of entries
NoteOffNotes(no) == {e.note : e \in no}
NoteOffDeadline(no, note) == (CHOOSE e \in no : e.note = note).deadline

InstantMax(a, b) == IF a >= b THEN a ELSE b

\* note_off.insert(note, deadline): the new deadline replaces the pending one
NoteOffQueueOverwrite(no, note, deadline) ==
    {e \in no : e.note # note} \cup {[note |-> note, deadline |-> deadline]}

\* let pre = note_off.entry(note).or_insert(deadline); *pre = deadline.max(*pre)
NoteOffQueue(no, note, deadline) ==
    IF note \in NoteOffNotes(no)
    THEN {IF e.note = note
          THEN [note |-> note, deadline |-> InstantMax(deadline, e.deadline)]
          ELSE e : e \in no}
    ELSE no \cup {[note |-> note, deadline |-> deadline]}

\* the entry is left in the map
NoteOffRemoveKeep(no, note) == no

\* note_off.remove(&note)
NoteOffRemove(no, note) == {e \in no : e.note # note}

\* every pending timer counts as expired
NoteOffDueAll(no, t) == no

\* Race::poll over the note-off timers: polled in note order, first ready wins
NoteOffDue(no, t) == {e \in no : e.deadline <= t}
NoteOffFirst(no, t) ==
    CHOOSE e \in NoteOffDue(no, t) : \A f \in NoteOffDue(no, t) : e.note <= f.note

\* Option<T> as a set with at most one element
None == {}
Some(x) == {x}

\* ---------------------------------------------------------------- analyze
\* AnalysisOptions; the fractions are kept in halves (0.5 = 1, 1.0 = 2)
Halves == 2

Options(fft_size, window_fraction, step_fraction) ==
    [fft_size |-> fft_size, window_fraction |-> window_fraction,
     step_fraction |-> step_fraction]

\* the options Application::new sets: fft_size 14, window 0.5, step 1.0
DefaultOptions == Options(14, 1, 2)

\* (n as f32 * fraction).ceil() as usize
CeilFraction(n, fraction) == (n * fraction + Halves - 1) \div Halves

FftWidth(o) == 2 ^ o.fft_size
WindowWidth(o) == CeilFraction(FftWidth(o), o.window_fraction)
Step(o) == CeilFraction(WindowWidth(o), o.step_fraction)

\* ------------------------------------------------------------------ keys
\* the highest piano key (PianoKey::new accepts 1..=88)
MaxKey == 88
PianoKeys == 1..MaxKey

\* PianoKey::new
PianoKeyNew(key) == IF key \in PianoKeys THEN Some(key) ELSE None

\* f32 as i8: the cast saturates
SatI8(x) == IF x < -128 THEN -128 ELSE IF x > 127 THEN 127 ELSE x
\* i8 arithmetic of the release build (the debug build panics on overflow,
\* which no input explored here reaches)
WrapI8(x) == ((x + 128) % 256) - 128
\* i8 as u8
AsU8(x) == x % 256
\* u8::saturating_sub
SaturatingSub(a, b) == IF a >= b THEN a - b ELSE 0

\* f32::round of n / d: to the nearest integer, halves away from zero
RoundHalfAway(n, d) ==
    IF n >= 0 THEN (2 * n + d) \div (2 * d) ELSE 0 - ((2 * (0 - n) + d) \div (2 * d))

\* A frequency f is kept as 12 * log2(f / 1 Hz) in thousandths of a
\* semitone, so that powers of the twelfth root of two and the logarithm
\* of from_concert_pitch are exact; the f32 error of either is far below
\* the half semitone that decides the rounding.
SemitoneUnits == 1000
\* 12 * log2(440) = 105.376
Log440 == 105376
\* 12 * log2(1) = 0
Log1 == 0

\* PianoKey::concert_pitch: twelfth_root.powi(number - 49)
ConcertPitch(k) == Log1 + (k - A4) * SemitoneUnits

\* PianoKey::from_concert_pitch:
\* new(((12.0 * (freq / 440.0).log2()).round() as i8 + 49) as u8)
FromConcertPitch(freq) ==
    PianoKeyNew(AsU8(WrapI8(SatI8(RoundHalfAway(freq - Log440, SemitoneUnits)) + A4)))

Preferences == {"Sharp", "Flat"}

\* MusicalNote::new
MusicalNote(letter, accidental, octave) ==
    [letter |-> letter, accidental |-> accidental, octave |-> octave]

\* NoteLetter::semitone
LetterSemitone(letter) ==
    CASE letter = "C" -> 0
      [] letter = "D" -> 2
      [] letter = "E" -> 4
      [] letter = "F" -> 5
      [] letter = "G" -> 7
      [] letter = "A" -> 9
      [] letter = "B" -> 11

\* Accidental::semitone_delta
SemitoneDelta(accidental) == IF accidental = "Sharp" THEN 1 ELSE 0 - 1

\* MusicalNote::semitone_offset
SemitoneOffset(note) ==
    LetterSemitone(note.letter)
    + (IF note.accidental = None THEN 0
       ELSE SemitoneDelta(CHOOSE a \in note.accidental : TRUE))

\* MusicalNote::semitone: ((octave * 12) as i8 + semitone_offset()) as u8
Semitone(note) == AsU8(WrapI8(WrapI8(AsU8(note.octave * 12)) + SemitoneOffset(note)))

\* MusicalNote::as_key
AsKey(note) ==
    IF note.octave > 8 THEN None ELSE PianoKeyNew(SaturatingSub(Semitone(note), 8))

\* the match of PianoKey::as_note on (note_offset, preference)
NoteTable(note_offset, preference, octave) ==
    CASE note_offset = 0 -> MusicalNote("C", None, octave)
      [] note_offset = 1 /\ preference = "Sharp" -> MusicalNote("C", Some("Sharp"), octave)
      [] note_offset = 1 /\ preference = "Flat" -> MusicalNote("D", Some("Flat"), octave)
      [] note_offset = 2 -> MusicalNote("D", None, octave)
      [] note_offset = 3 /\ preference = "Sharp" -> MusicalNote("D", Some("Sharp"), octave)
      [] note_offset = 3 /\ preference = "Flat" -> MusicalNote("E", Some("Flat"), octave)
      [] note_offset = 4 -> MusicalNote("E", None, octave)
      [] note_offset = 5 -> MusicalNote("F", None, octave)
      [] note_offset = 6 /\ preference = "Sharp" -> MusicalNote("F", Some("Sharp"), octave)
      [] note_offset = 6 /\ preference = "Flat" -> MusicalNote("G", Some("Flat"), octave)
      [] note_offset = 7 -> MusicalNote("G", None, octave)
      [] note_offset = 8 /\ preference = "Sharp" -> MusicalNote("G", Some("Sharp"), octave)
      [] note_offset = 8 /\ preference = "Flat" -> MusicalNote("A", Some("Flat"), octave + 1)
      [] note_offset = 9 -> MusicalNote("A", None, octave)
      [] note_offset = 10 /\ preference = "Sharp" -> MusicalNote("A", Some("Sharp"), octave)
      [] note_offset = 10 /\ preference = "Flat" -> MusicalNote("B", Some("Flat"), octave)
      [] note_offset = 11 -> MusicalNote("B", None, octave)

\* B is spelled C flat of the next octave when flats are preferred
AsNoteMatchCFlat(note_offset, preference, octave) ==
    IF note_offset = 11 /\ preference = "Flat"
    THEN MusicalNote("C", Some("Flat"), octave + 1)
    ELSE NoteTable(note_offset, preference, octave)

AsNoteMatch(note_offset, preference, octave) ==
    NoteTable(note_offset, preference, octave)

\* PianoKey::as_note
AsNote(k, preference) ==
    LET key_from_c0 == AsU8(k + 8)
    IN  AsNoteMatch(key_from_c0 % 12, preference, key_from_c0 \div 12)

\* PianoKey::is_white: the offsets of the natural notes
NaturalOffsets == {0, 2, 4, 5, 7, 9, 11}

\* notes computed so far, by preference
NoNotes == [p \in {} |-> None]

VARIABLES
    key_list,        \* the KeyPresses set under test
    ops,             \* add/remove calls made on it
    lastOp,          \* the last call and its argument
    extend_iter,     \* two KeyPresses built by extend: what is left of each iterator
    extend_list,     \* two KeyPresses built by extend: each key_list so far
    now,             \* Instant::now(), microseconds
    connection,      \* MidiConnection: "Connected" or "Disconnected"
    analysis,        \* Application::analysis: None or the notes map
    current_song,    \* Application::current_song: 0 (empty handle) or a session
    songs,           \* number of play_song calls so far
    song_pc,         \* per session: "idle", "awaiting", "cancelled"
    song_start,      \* per session: start = Instant::now() at play_song
    song_notes,      \* per session: the task's own notes map
    song_cancel,     \* per session: cancel() has been called
    song_snapshot,   \* per session: the map passed to play_song (history)
    song_fired,      \* per session: the (key, press) pairs sent so far (history)
    thread_commands, \* the flume channel of MidiThreadCommand
    note_off,        \* midi_thread's pending off-deadlines
    midi_pc,         \* midi_thread: "running" or "panicked"
    wire,            \* commands the connection accepted, in order (history)
    fails,           \* sends the connection rejected
    midi_iter,       \* iterations of midi_thread's loop completed (history)
    clicks,          \* play_piano calls so far
    edits,           \* edits of the caller's map so far
    owed,            \* notes sounding at a cancel() that got no NoteOff yet (history)
    waveform,        \* Application::waveform: None or the decoded waveform
    analysis_options,\* Application::analysis_options
    status,          \* Application::status, the TaskProgress shown by the UI
    an_pc,           \* the waveform-analysis thread's position
    an_i,            \* analyze: windows processed so far
    an_windows,      \* analyze: window_count, the width of the image
    an_keys,         \* analyze: the key map under construction
    an_writes,       \* writes of the analysis slot by the analysis thread (history)
    an_before,       \* the analysis slot when the thread was spawned (history)
    an_source,       \* the waveform the analysis thread reads through its guard
    analysis_from,   \* the waveform the analysis slot was computed from (history)
    de_pc,           \* the file-decode thread's position
    de_new,          \* the waveform the decoder yields
    piano_key,       \* the PianoKey under test
    musical_note,    \* as_note(piano_key, preference), for the preferences tried
    note_key,        \* as_key() of those notes, where computed
    pitch,           \* piano_key.concert_pitch(), once computed
    pitch_key,       \* PianoKey::from_concert_pitch(pitch), once computed
    midi_note,       \* MidiNote::from_piano_key(piano_key), once computed
    midi_bytes       \* to_bytes() of a NoteOn / NoteOff of midi_note, once computed

extendVars == <<extend_iter, extend_list>>
kpVars == <<key_list, ops, lastOp, extendVars>>
songVars == <<song_pc, song_start, song_notes, song_cancel, song_snapshot, song_fired>>
appVars == <<analysis, current_song, songs, clicks, edits>>
midiVars == <<thread_commands, note_off, midi_pc, wire, fails, midi_iter>>
schedVars == <<now, connection, songVars, appVars, midiVars, owed>>
deVars == <<de_pc, de_new>>
anVars == <<waveform, analysis_options, status, an_pc, an_i, an_windows, an_keys,
            an_writes, an_before, an_source, analysis_from, deVars>>
keyVars == <<piano_key, musical_note, note_key, pitch, pitch_key, midi_note, midi_bytes>>
dataVars == <<kpVars, anVars, keyVars>>
vars == <<dataVars, schedVars>>

Sessions == 1..MaxSongs

\* ------------------------------------------------------ KeyPresses alone
KPRest == 
    /\ key_list = KeyPressesNew
    /\ ops = 0
    /\ lastOp = [op |-> "new", press |-> KeyPress(0, 0, 0)]

\* no KeyPresses is being built from an iterator
ExtendRest ==
    /\ extend_iter = <<<<>>, <<>>>>
    /\ extend_list = <<KeyPressesNew, KeyPressesNew>>

\* no file is being decoded and no waveform has been read or analyzed
TaskRest ==
    /\ an_source = None
    /\ analysis_from = None
    /\ de_pc = "idle"
    /\ de_new = None

\* no waveform is loaded and no analysis thread runs
AnRest ==
    /\ TaskRest
    /\ waveform = None
    /\ analysis_options = DefaultOptions
    /\ status = "None"
    /\ an_pc = "idle"
    /\ an_i = 0
    /\ an_windows = 0
    /\ an_keys = NoKeys
    /\ an_writes = 0
    /\ an_before = None

\* no conversion of a piano key has been made
KeyRest ==
    /\ piano_key = A4
    /\ musical_note = NoNotes
    /\ note_key = NoNotes
    /\ pitch = None
    /\ pitch_key = None
    /\ midi_note = None
    /\ midi_bytes = None

SchedRest(conns, analyses) ==
    /\ now = 0
    /\ connection \in conns
    /\ analysis \in analyses
    /\ current_song = 0
    /\ songs = 0
    /\ song_pc = [s \in Sessions |-> "idle"]
    /\ song_start = [s \in Sessions |-> 0]
    /\ song_notes = [s \in Sessions |-> NoKeys]
    /\ song_cancel = [s \in Sessions |-> FALSE]
    /\ song_snapshot = [s \in Sessions |-> NoKeys]
    /\ song_fired = [s \in Sessions |-> {}]
    /\ thread_commands = <<>>
    /\ note_off = {}
    /\ midi_pc = "running"
    /\ wire = <<>>
    /\ fails = 0
    /\ midi_iter = 0
    /\ clicks = 0
    /\ edits = 0
    /\ owed = {}

KPInit == KPRest /\ ExtendRest /\ AnRest /\ KeyRest /\ SchedRest({"Connected"}, {None})

KPAdd ==
    \E kp \in Presses :
        /\ ops < MaxOps
        /\ key_list' = KeyPressesAdd(key_list, kp)
        /\ ops' = ops + 1
        /\ lastOp' = [op |-> "add", press |-> kp]
        /\ UNCHANGED <<schedVars, anVars, keyVars, extendVars>>

KPRemove ==
    \E kp \in Presses :
        /\ ops < MaxOps
        /\ key_list' = KeyPressesRemove(key_list, kp)
        /\ ops' = ops + 1
        /\ lastOp' = [op |-> "remove", press |-> kp]
        /\ UNCHANGED <<schedVars, anVars, keyVars, extendVars>>

KPNext == KPAdd \/ KPRemove

SpecKP == KPInit /\ [][KPNext]_vars

\* -------------------------------------------------------- the scheduler
\* the notes shown and played: analysis.notes, or the EMPTY map (app.rs 528-536)
AnalysisNotes == IF analysis = None THEN NoKeys ELSE CHOOSE n \in analysis : TRUE

\* SongProgress::upgrade: the handle of the session that is still running
SongUpgrade ==
    IF current_song # 0 /\ song_pc[current_song] = "awaiting"
    THEN Some(current_song) ELSE None

\* the executor thread runs every task; a panic in one task unwinds through
\* Executor::run and ends the thread
ExecutorAlive == midi_pc = "running"

\* the window of time in which the user's clicks are explored
UserActs == now <= MaxTicks * TickUs

\* let mut notes = notes.clone()
CloneNotes(notes) == notes

\* MidiPlayer::play_song up to the spawn
PlaySong(s, notes) ==
    /\ song_pc' = [song_pc EXCEPT ![s] = "awaiting"]
    /\ song_start' = [song_start EXCEPT ![s] = now]
    /\ song_notes' = [song_notes EXCEPT ![s] = CloneNotes(notes)]
    /\ song_snapshot' = [song_snapshot EXCEPT ![s] = notes]
    /\ UNCHANGED <<song_cancel, song_fired, owed>>

\* the notes whose last command on the wire is a NoteOn
Sounding ==
    {wire[i].note : i \in {j \in 1..Len(wire) :
        /\ wire[j].cmd = "NoteOn"
        /\ \A k \in (j + 1)..Len(wire) :
              ~(wire[k].cmd = "NoteOff" /\ wire[k].note = wire[j].note)}}

\* SongProgress::cancel
SongCancel(s) ==
    /\ song_cancel' = [song_cancel EXCEPT ![s] = TRUE]
    /\ owed' = owed \cup Sounding

\* "Play Notes" button
PlayNotes ==
    /\ UserActs
    /\ analysis # None
    /\ SongUpgrade = None
    /\ songs < MaxSongs
    /\ songs' = songs + 1
    /\ current_song' = songs + 1
    /\ PlaySong(songs + 1, AnalysisNotes)
    /\ UNCHANGED <<dataVars, now, connection, analysis, clicks, edits, midiVars>>

\* "Stop Playing" button
StopPlaying ==
    \E s \in SongUpgrade :
        /\ UserActs
        /\ analysis # None
        /\ ~song_cancel[s]
        /\ SongCancel(s)
        /\ UNCHANGED <<dataVars, now, connection, appVars, midiVars,
                       song_pc, song_start, song_notes, song_snapshot, song_fired>>

\* "Unload" button of the analysis
UnloadAnalysis ==
    /\ UserActs
    /\ analysis # None
    /\ analysis' = None
    /\ IF SongUpgrade # None
       THEN SongCancel(CHOOSE s \in SongUpgrade : TRUE)
       ELSE UNCHANGED <<song_cancel, owed>>
    /\ UNCHANGED <<dataVars, now, connection, current_song, songs, clicks, edits, midiVars,
                   song_pc, song_start, song_notes, song_snapshot, song_fired>>

\* presses the owner of the map adds to / removes from a key's KeyPresses
EditPresses == {KeyPress(0, Ms(100), 2), KeyPress(100, Ms(100), 2)}

CallerAdd ==
    \E k \in DOMAIN AnalysisNotes, kp \in EditPresses :
        /\ UserActs
        /\ analysis # None
        /\ edits < MaxEdits
        /\ edits' = edits + 1
        /\ analysis' = Some([AnalysisNotes EXCEPT ![k] = KeyPressesAdd(@, kp)])
        /\ UNCHANGED <<dataVars, now, connection, current_song, songs, clicks, songVars, midiVars, owed>>

CallerRemove ==
    \E k \in DOMAIN AnalysisNotes, kp \in EditPresses :
        /\ UserActs
        /\ analysis # None
        /\ edits < MaxEdits
        /\ edits' = edits + 1
        /\ analysis' = Some([AnalysisNotes EXCEPT ![k] = KeyPressesRemove(@, kp)])
        /\ UNCHANGED <<dataVars, now, connection, current_song, songs, clicks, songVars, midiVars, owed>>

\* results an analysis task stores: *analysis.write() = Some(AudioAnalysis { .. })
StoredAnalyses == {SingleNotes, OverlapNotes}

ReplaceAnalysis ==
    \E notes \in StoredAnalyses :
        /\ UserActs
        /\ edits < MaxEdits
        /\ edits' = edits + 1
        /\ analysis' = Some(notes)
        /\ UNCHANGED <<dataVars, now, connection, current_song, songs, clicks, songVars, midiVars, owed>>

PlayNoteCommand(note, duration, src) == [note |-> note, duration |-> duration, src |-> src]

\* MidiPlayer::play_piano, called on a click on a press of the piano roll
PlayPiano ==
    \E p \in NotePairs(AnalysisNotes) :
        /\ UserActs
        /\ clicks < MaxPiano
        /\ midi_pc = "running"
        /\ clicks' = clicks + 1
        /\ thread_commands' = Append(thread_commands,
               PlayNoteCommand(MidiNoteFromPianoKey(p.key), p.press.duration, 0))
        /\ UNCHANGED <<dataVars, now, connection, analysis, current_song, songs, edits, songVars,
                       note_off, midi_pc, wire, fails, midi_iter, owed>>

\* the task iterates over the caller's map instead of its clone
SessionNotesShared(s) == AnalysisNotes

\* the notes the session's task iterates over
SessionNotes(s) == song_notes[s]

\* the task waits on its timers only
SongMayFireAlways(s) == TRUE

\* the task waits on its timers and on the cancellation signal
SongMayFire(s) == ~song_cancel[s]

\* one iteration of the loop of the task spawned by play_song
SongFire(s) ==
    /\ ExecutorAlive
    /\ song_pc[s] = "awaiting"
    /\ SongMayFire(s)
    /\ RaceDue(SessionNotes(s), song_start[s], now) # {}
    /\ LET p == RaceFirst(SessionNotes(s), song_start[s], now)
       IN  /\ thread_commands' = Append(thread_commands,
                  PlayNoteCommand(MidiNoteFromPianoKey(p.key), p.press.duration, s))
           /\ song_notes' = [song_notes EXCEPT
                  ![s] = [SessionNotes(s) EXCEPT ![p.key] = KeyPressesRemove(@, p.press)]]
           /\ song_fired' = [song_fired EXCEPT ![s] = @ \cup {p}]
    /\ UNCHANGED <<dataVars, now, connection, appVars, note_off, midi_pc, wire, fails,
                   midi_iter, owed,
                   song_pc, song_start, song_cancel, song_snapshot>>

\* the task observes the cancellation and ends
SongCancelled(s) ==
    /\ ExecutorAlive
    /\ song_pc[s] = "awaiting"
    /\ song_cancel[s]
    /\ song_pc' = [song_pc EXCEPT ![s] = "cancelled"]
    /\ UNCHANGED <<dataVars, now, connection, appVars, midiVars, owed,
                   song_start, song_notes, song_cancel, song_snapshot, song_fired>>

Wire(cmd, note, src) == [cmd |-> cmd, note |-> note, src |-> src]

\* outcomes of connection.send(..): accepted, or rejected (then unwrap panics)
SendOutcomes == IF fails < MaxFail THEN {TRUE, FALSE} ELSE {TRUE}

\* the off-deadline of the ignored note is queued all the same
IgnoreNoteQueued(no, note, deadline) == NoteOffQueue(no, note, deadline)

\* MidiConnection::Disconnected: "ignoring note", note_off is left alone
IgnoreNote(no, note, deadline) == no

\* midi_thread, MidiAction::NewCommand(PlayNote(note, duration)); an
\* iteration is completed when the match returns to the top of the loop
MidiNewCommand ==
    /\ midi_pc = "running"
    /\ thread_commands # <<>>
    /\ thread_commands' = Tail(thread_commands)
    /\ LET c == Head(thread_commands)
       IN  IF connection = "Disconnected"
           THEN /\ note_off' = IgnoreNote(note_off, c.note, now + c.duration)
                /\ midi_iter' = midi_iter + 1
                /\ UNCHANGED <<midi_pc, wire, fails>>
           ELSE \E ok \in SendOutcomes :
                   IF ok
                   THEN /\ wire' = Append(wire, Wire("NoteOn", c.note, c.src))
                        /\ note_off' = NoteOffQueue(note_off, c.note, now + c.duration)
                        /\ midi_iter' = midi_iter + 1
                        /\ UNCHANGED <<midi_pc, fails>>
                   ELSE /\ midi_pc' = "panicked"
                        /\ fails' = fails + 1
                        /\ UNCHANGED <<note_off, wire, midi_iter>>
    /\ UNCHANGED <<dataVars, now, connection, appVars, songVars, owed>>

\* midi_thread, MidiAction::TimerWake(note); future::or polls the command
\* channel first, so a timer wins only when no command is queued
MidiTimerWake ==
    /\ midi_pc = "running"
    /\ thread_commands = <<>>
    /\ NoteOffDue(note_off, now) # {}
    /\ LET e == NoteOffFirst(note_off, now)
       IN  IF connection = "Disconnected"
           THEN /\ midi_iter' = midi_iter + 1
                /\ UNCHANGED <<note_off, midi_pc, wire, fails, owed>>
           ELSE /\ note_off' = NoteOffRemove(note_off, e.note)
                /\ \E ok \in SendOutcomes :
                      IF ok
                      THEN /\ wire' = Append(wire, Wire("NoteOff", e.note, 0))
                           /\ owed' = owed \ {e.note}
                           /\ midi_iter' = midi_iter + 1
                           /\ UNCHANGED <<midi_pc, fails>>
                      ELSE /\ midi_pc' = "panicked"
                           /\ fails' = fails + 1
                           /\ UNCHANGED <<wire, owed, midi_iter>>
    /\ UNCHANGED <<dataVars, now, connection, appVars, songVars, thread_commands>>

\* some task waits on a timer that has not expired yet
TimerPending ==
    /\ ExecutorAlive
    /\ \/ \E e \in note_off : e.deadline > now
       \/ \E s \in Sessions :
             /\ song_pc[s] = "awaiting"
             /\ ~song_cancel[s]
             /\ \E p \in NotePairs(song_notes[s]) : PlayDeadline(song_start[s], p.press) > now

\* time passes
Tick ==
    /\ now < MaxTicks * TickUs \/ TimerPending
    /\ now' = now + TickUs
    /\ UNCHANGED <<dataVars, connection, songVars, appVars, midiVars, owed>>

Init ==
    KPRest /\ ExtendRest /\ AnRest /\ KeyRest /\ SchedRest({"Connected", "Disconnected"}, {Some(LongShortNotes), Some(TwoKeyNotes)})

\* playing the notes and clicking on presses of the piano roll
Next ==
    \/ PlayNotes
    \/ PlayPiano
    \/ \E s \in Sessions : SongFire(s)
    \/ MidiNewCommand
    \/ MidiTimerWake
    \/ Tick

Spec == Init /\ [][Next]_vars

\* playing, stopping and playing again on a connected output
InitCancel == KPRest /\ ExtendRest /\ AnRest /\ KeyRest /\ SchedRest({"Connected"}, {Some(LongShortNotes)})

NextCancel ==
    \/ PlayNotes
    \/ StopPlaying
    \/ \E s \in Sessions : SongFire(s)
    \/ \E s \in Sessions : SongCancelled(s)
    \/ MidiNewCommand
    \/ MidiTimerWake
    \/ Tick

SpecCancel == InitCancel /\ [][NextCancel]_vars

\* C1: after any sequence of add and remove calls starting from the empty
\* set, no two stored intervals are adjacent (one ends, in whole ms, where
\* the other starts) and no two stored intervals overlap.
C1_NoAdjacentNoOverlap ==
    \A a, b \in KeyPressesIter(key_list) :
        a.start < b.start => EndMs(a) < b.start

\* a step of midi_thread that took a PlayNote off the channel and sent its NoteOn
PlayNoteProcessed ==
    /\ thread_commands # <<>>
    /\ thread_commands' = Tail(thread_commands)
    /\ wire' # wire

C2_OnePerNote == \A e, f \in note_off : e.note = f.note => e = f

C2_Step ==
    /\ \A n \in NoteOffNotes(note_off) \cap NoteOffNotes(note_off') :
           NoteOffDeadline(note_off', n) >= NoteOffDeadline(note_off, n)
    /\ PlayNoteProcessed /\ Head(thread_commands).note \in NoteOffNotes(note_off)
          => \E e \in note_off' :
                /\ e.note = Head(thread_commands).note
                /\ e.deadline >= NoteOffDeadline(note_off, e.note)
                /\ e.deadline >= now + Head(thread_commands).duration
                /\ e.deadline \in {NoteOffDeadline(note_off, e.note),
                                   now + Head(thread_commands).duration}

\* C2: midi_thread holds at most one pending off-deadline per note, and a
\* PlayNote processed for a note that is already pending sets its deadline
\* to max(existing deadline, now + duration); the off-deadline of a note
\* never decreases while the note stays pending.
C2_PendingDeadlineIsMax == []C2_OnePerNote /\ [][C2_Step]_vars

\* a PlayNote was processed for a note that was sounding, and the new
\* deadline (now + duration) was below the pending one, which was kept
C2_Witness ==
    /\ songs = 1 /\ song_snapshot[1] = LongShortNotes /\ clicks = 0
    /\ Len(wire) = 2
    /\ \A i \in 1..2 : wire[i].cmd = "NoteOn" /\ wire[i].note = MidiNoteFromPianoKey(A4)
    /\ \E e \in note_off : e.note = MidiNoteFromPianoKey(A4) /\ e.deadline > now + Ms(100)

\* C4: after a session is cancelled, every note that had received a NoteOn
\* before the cancellation gets its NoteOff; in particular the dispatch loop
\* never stops while such a note is still owed its NoteOff.
C4_CancelledNotesGetNoteOff == midi_pc # "running" => owed = {}

\* commands of session s that are queued or on the wire
SessionCommands(s) ==
    Cardinality({i \in 1..Len(thread_commands) : thread_commands[i].src = s})
    + Cardinality({i \in 1..Len(wire) : wire[i].cmd = "NoteOn" /\ wire[i].src = s})

C5_OnlyFired == \A s \in Sessions : SessionCommands(s) <= Cardinality(song_fired[s])

C5_Step ==
    \A s \in Sessions :
        song_cancel[s] =>
            /\ song_fired'[s] = song_fired[s]
            /\ song_notes'[s] = song_notes[s]
            /\ \A i \in 1..Len(thread_commands') :
                  thread_commands'[i].src = s => i <= Len(thread_commands)
            /\ song_pc'[s] \in {song_pc[s], "cancelled"}

C6_OneSessionDrives ==
    \A i \in 1..Len(wire) :
        wire[i].cmd = "NoteOn" /\ wire[i].src > 1 =>
            \A j \in 1..(i - 1) :
                wire[j].cmd = "NoteOn" /\ wire[j].src \in 1..(wire[i].src - 1) =>
                    \E k \in (j + 1)..(i - 1) :
                        wire[k].cmd = "NoteOff" /\ wire[k].note = wire[j].note

\* C8: a send the connection rejects does not stop the dispatch loop: the
\* loop is still running after it, ready for later commands and timers.
C8_LoopSurvivesFailedSend == fails > 0 => midi_pc = "running"

\* C10: a session that is not cancelled finishes: once every interval of
\* its snapshot has fired, the task is no longer waiting in its loop.
C10_SessionFinishes ==
    \A s \in Sessions :
        song_pc[s] = "awaiting" /\ ~song_cancel[s] => NotePairs(song_notes[s]) # {}

\* --------------------------------------- editing the map while it plays
InitEdit == KPRest /\ ExtendRest /\ AnRest /\ KeyRest /\ SchedRest({"Connected"}, {Some(LongShortNotes)})

NextEdit ==
    \/ PlayNotes
    \/ UnloadAnalysis
    \/ CallerAdd
    \/ CallerRemove
    \/ ReplaceAnalysis
    \/ \E s \in Sessions : SongFire(s)
    \/ \E s \in Sessions : SongCancelled(s)
    \/ MidiNewCommand
    \/ MidiTimerWake
    \/ Tick

SpecEdit == InitEdit /\ [][NextEdit]_vars

C7_WorkList ==
    \A s \in Sessions :
        song_pc[s] # "idle" =>
            /\ NotePairs(SessionNotes(s)) \cup song_fired[s] = NotePairs(song_snapshot[s])
            /\ NotePairs(SessionNotes(s)) \cap song_fired[s] = {}

C7_Step ==
    /\ song_fired' # song_fired => analysis' = analysis
    /\ analysis' # analysis =>
          \A s \in Sessions : song_pc[s] # "idle" => song_notes'[s] = song_notes[s]

\* C7: play_song works on its own clone of the notes: the intervals a
\* session still has to fire plus those it fired are the map as it was at
\* play_song, whatever add / remove / replace / unload happens to the
\* caller's map afterwards, and firing (which removes the interval from the
\* clone) leaves the caller's map unchanged.
C7_PrivateSnapshot == []C7_WorkList /\ [][C7_Step]_vars

\* a session fired an interval whose play-deadline lies after the last edit,
\* while the caller's map no longer equals the snapshot
C7_Witness ==
    \E s \in Sessions :
        /\ song_pc[s] = "awaiting"
        /\ analysis # None
        /\ AnalysisNotes # song_snapshot[s]
        /\ \E p \in song_fired[s] : PlayDeadline(song_start[s], p.press) > MaxTicks * TickUs
        /\ NotePairs(song_notes[s]) = {}

\* ------------------------------------------------------- the scenarios
\* the application holds {A4: [(0 ms, 500 ms)]} or the result of adding
\* (0 ms, 300 ms) and (100 ms, 400 ms) for A4; the output is connected and
\* the only click is one "Play Notes"
InitScenario == KPRest /\ ExtendRest /\ AnRest /\ KeyRest /\ SchedRest({"Connected"}, {Some(SingleNotes), Some(OverlapNotes)})

NextScenario ==
    \/ PlayNotes
    \/ SongFire(1)
    \/ MidiNewCommand
    \/ MidiTimerWake
    \/ Tick

\* the executor runs a task whose future is ready, timers expire as time passes
SpecScenario ==
    /\ InitScenario
    /\ [][NextScenario]_vars
    /\ WF_vars(SongFire(1))
    /\ WF_vars(MidiNewCommand)
    /\ WF_vars(MidiTimerWake)
    /\ WF_vars(Tick)

SingleOn == [cmd |-> "NoteOn", note |-> MidiNoteFromPianoKey(A4), src |-> 1]
SingleOff == [cmd |-> "NoteOff", note |-> MidiNoteFromPianoKey(A4), src |-> 0]

PlayingSingle == songs = 1 /\ song_snapshot[1] = SingleNotes

C3_Prefix == PlayingSingle => wire \in {<<>>, <<SingleOn>>, <<SingleOn, SingleOff>>}

C3_Timing ==
    PlayingSingle /\ Len(wire') > Len(wire)
        => /\ wire'[Len(wire')].cmd = "NoteOn" => now >= song_start[1]
           /\ wire'[Len(wire')].cmd = "NoteOff" => now >= song_start[1] + Ms(500)

\* C3: playing the snapshot {A4: [(0 ms, 500 ms)]} on a connected output
\* that accepts the sends emits one NoteOn for A4, not before the epoch T,
\* then one NoteOff for A4, not before T + 500 ms, and nothing else.
C3_SingleNoteOnOff ==
    /\ []C3_Prefix
    /\ [][C3_Timing]_vars
    /\ PlayingSingle ~> (wire = <<SingleOn, SingleOff>> \/ fails > 0)

\* both events are on the wire and every send was accepted
C3_Witness == PlayingSingle /\ wire = <<SingleOn, SingleOff>> /\ fails = 0 /\ note_off = {}

PlayingOverlap == songs = 1 /\ song_snapshot[1] = OverlapNotes

\* number of commands of one kind on the wire
WireCount(cmd, note) ==
    Cardinality({i \in 1..Len(wire) : wire[i].cmd = cmd /\ wire[i].note = note})

\* C9: the presses (0 ms, 300 ms) and (100 ms, 400 ms) of one key, added to
\* an empty set, are stored as one interval, and playing the set emits one
\* NoteOn and one NoteOff: no second NoteOn for a note that still sounds.
C9_OverlapPlayedOnce ==
    PlayingOverlap =>
        /\ Cardinality(KeyPressesIter(song_snapshot[1][A4])) = 1
        /\ WireCount("NoteOn", MidiNoteFromPianoKey(A4)) <= 1
        /\ WireCount("NoteOff", MidiNoteFromPianoKey(A4)) <= 1

\* ------------------------------------------------- the dispatch loop's steps
\* a step that completes one iteration of midi_thread's loop
MidiIteration == midi_iter' # midi_iter

\* the iteration took one command off the channel
ConsumedCommand ==
    /\ thread_commands # <<>>
    /\ thread_commands' = Tail(thread_commands)

\* the iteration sent the NoteOff of one due off-deadline and removed it
EmittedNoteOff ==
    \E e \in NoteOffDue(note_off, now) :
        /\ note_off' = note_off \ {e}
        /\ wire' = Append(wire, Wire("NoteOff", e.note, 0))

C11_Step == MidiIteration => ConsumedCommand \/ EmittedNoteOff

\* C11: the dispatch loop never busy-spins: every completed iteration of
\* midi_thread's loop either consumes one inbound command or emits the
\* NoteOff of one due pending off-deadline and removes it, with the output
\* connected or disconnected.
C11_NoBusySpin == [][C11_Step]_vars

\* a disconnected player consumed both commands of a session and holds no
\* off-deadline, so no timer can wake the loop
C11_Witness ==
    /\ connection = "Disconnected"
    /\ songs = 1 /\ song_snapshot[1] = LongShortNotes
    /\ midi_iter = 2
    /\ thread_commands = <<>>
    /\ note_off = {}
    /\ now >= Ms(300)

\* ------------------------------------------- two adds to an empty KeyPresses
\* the set holds exactly the press of a first add to the empty set
FirstAdded == ops = 1 /\ lastOp.op = "add"

\* the step is a second add
SecondAdd == FirstAdded /\ ops' = 2 /\ lastOp'.op = "add"

\* the duration is a whole number of milliseconds, above zero
WholeMs(d) == d > 0 /\ d % UsPerMs = 0

C12_Step ==
    LET d1 == lastOp.press.duration \div UsPerMs
        d2 == lastOp'.press.duration \div UsPerMs
    IN  /\ SecondAdd
        /\ WholeMs(lastOp.press.duration)
        /\ WholeMs(lastOp'.press.duration)
        /\ lastOp'.press.start = lastOp.press.start + d1
        => /\ DOMAIN key_list' = {lastOp.press.start}
           /\ key_list'[lastOp.press.start].duration = Ms(d1 + d2)

\* C12: adding KeyPress(a, d1) and then KeyPress(a + d1, d2), d1 and d2 whole
\* milliseconds, to an empty set leaves exactly one stored interval, with
\* start a and duration d1 + d2.
C12_AdjacentAddsCoalesce == [][C12_Step]_vars

\* (0, 100 ms) then (100, 50 ms) gave (0, 150 ms)
C12_Witness ==
    /\ ops = 2
    /\ lastOp.op = "add"
    /\ lastOp.press.start = 100 /\ lastOp.press.duration = Ms(50)
    /\ DOMAIN key_list = {0}
    /\ key_list[0].duration = Ms(150)

C13_Step ==
    LET d1 == lastOp.press.duration \div UsPerMs
    IN  /\ SecondAdd
        /\ WholeMs(lastOp.press.duration)
        /\ lastOp'.press.start > lastOp.press.start + d1
        => KeyPressesIter(key_list') = {lastOp.press, lastOp'.press}

\* C13: adding (a, d1) and then (b, d2) with b > a + d1 to an empty set
\* leaves two stored intervals, each with its own start and duration.
C13_GapKeepsTwo == [][C13_Step]_vars

\* (0, 100 ms) then (101, 50 ms) are stored as two intervals
C13_Witness ==
    /\ ops = 2
    /\ lastOp.op = "add"
    /\ KeyPressesIter(key_list) = {KeyPress(0, Ms(100), 1), KeyPress(101, Ms(50), 1)}
    /\ lastOp.press = KeyPress(101, Ms(50), 1)

\* ----------------------------------------------------- conversions of keys
KeyInit ==
    /\ piano_key \in PianoKeys
    /\ musical_note = NoNotes
    /\ note_key = NoNotes
    /\ pitch = None
    /\ pitch_key = None
    /\ midi_note = None
    /\ midi_bytes = None

\* piano_key.as_note(preference)
KeyAsNote ==
    \E preference \in Preferences \ DOMAIN musical_note :
        /\ musical_note' = (preference :> AsNote(piano_key, preference)) @@ musical_note
        /\ UNCHANGED <<piano_key, note_key, pitch, pitch_key, midi_note, midi_bytes,
                       kpVars, anVars, schedVars>>

\* note.as_key() on a note as_note returned
NoteAsKey ==
    \E preference \in DOMAIN musical_note \ DOMAIN note_key :
        /\ note_key' = (preference :> AsKey(musical_note[preference])) @@ note_key
        /\ UNCHANGED <<piano_key, musical_note, pitch, pitch_key, midi_note, midi_bytes,
                       kpVars, anVars, schedVars>>

\* piano_key.concert_pitch()
KeyConcertPitch ==
    /\ pitch = None
    /\ pitch' = Some(ConcertPitch(piano_key))
    /\ UNCHANGED <<piano_key, musical_note, note_key, pitch_key, midi_note, midi_bytes,
                       kpVars, anVars, schedVars>>

\* PianoKey::from_concert_pitch(pitch)
KeyFromConcertPitch ==
    \E freq \in pitch :
        /\ pitch_key = None
        /\ pitch_key' = Some(FromConcertPitch(freq))
        /\ UNCHANGED <<piano_key, musical_note, note_key, pitch, midi_note, midi_bytes,
                       kpVars, anVars, schedVars>>

\* MidiNote::new: the assertion number >> 7 == 0 panics when it fails
MidiNoteNew(number) == IF number \div 128 = 0 THEN Some(number) ELSE None

\* MidiCommand::to_bytes of NoteOn(note, velocity) / NoteOff(note, velocity)
ToBytes(cmd, note, velocity) ==
    <<IF cmd = "NoteOn" THEN 144 ELSE 128, note, velocity>>

\* MidiNote::from_piano_key(piano_key)
KeyMidiNote ==
    /\ midi_note = None
    /\ midi_note' = Some(MidiNoteNew(AsU8(MidiNoteFromPianoKey(piano_key))))
    /\ UNCHANGED <<piano_key, musical_note, note_key, pitch, pitch_key, midi_bytes,
                   kpVars, anVars, schedVars>>

\* MidiCommand::NoteOn(note, 0b01111111).to_bytes() and the same for NoteOff
KeyToBytes ==
    \E made \in midi_note, cmd \in {"NoteOn", "NoteOff"} :
        \E note \in made :
            /\ midi_bytes = None
            /\ midi_bytes' = Some(ToBytes(cmd, note, 127))
            /\ UNCHANGED <<piano_key, musical_note, note_key, pitch, pitch_key, midi_note,
                           kpVars, anVars, schedVars>>

NextKey ==
    \/ KeyAsNote
    \/ NoteAsKey
    \/ KeyConcertPitch
    \/ KeyFromConcertPitch
    \/ KeyMidiNote
    \/ KeyToBytes

InitKey == KPRest /\ ExtendRest /\ AnRest /\ KeyInit /\ SchedRest({"Connected"}, {None})

SpecKey == InitKey /\ [][NextKey]_vars

\* C18: for every key k in 1..=88,
\* PianoKey::from_concert_pitch(k.concert_pitch()) is Some(k).
C18_ConcertPitchRoundTrip == \A r \in pitch_key : r = Some(piano_key)

\* the note offset of the key under test is one of a natural note
NaturalKey == ((piano_key + 8) % 12) \in NaturalOffsets

\* C19: for every key whose offset (k + 8) mod 12 is natural, as_note with
\* the Sharp preference and with the Flat preference return the same note
\* (same letter, no accidental, same octave).
C19_NaturalsIgnorePreference ==
    NaturalKey =>
        \A p, q \in DOMAIN musical_note :
            /\ musical_note[p] = musical_note[q]
            /\ musical_note[p].accidental = None

\* key 40 (C4) was converted with both preferences
C19_Witness ==
    /\ piano_key = 40
    /\ DOMAIN musical_note = Preferences
    /\ musical_note["Flat"] = MusicalNote("C", None, 4)

\* C20: for every key k in 1..=88 and either preference p,
\* as_note(k, p).as_key() is Some(k).
C20_NoteRoundTrip == \A p \in DOMAIN note_key : note_key[p] = Some(piano_key)

\* ------------------------------------------------------------ the analysis
\* hits: the windows in which the bucket of 440 Hz reaches the threshold
Waveform(len, sample_rate, hits) ==
    [len |-> len, sample_rate |-> sample_rate, hits |-> hits]

\* usize is 64 bits wide; the model keeps UsizeBits of them, enough for
\* every length explored, so that a wrapped difference stays a number
UsizeBits == 30

\* waveform.len() - window_width in usize, as the release build computes it
UsizeSub(a, b) == (a - b) % (2 ^ UsizeBits)

\* the debug build checks the subtraction for overflow and panics
Builds == {"debug", "release"}

\* the range is taken to be inclusive of its last start
StepByLenFloor(n, step) == n \div step

\* ExactSizeIterator::len of (0..n).step_by(step)
StepByLen(n, step) == IF n = 0 THEN 0 ELSE 1 + (n - 1) \div step

\* seconds_per_window = window_width as f64 / sample_rate as f64, kept as
\* a fraction; its f64 error is far below what round and as_millis resolve
SecondsPerWindow(options, w) == [num |-> WindowWidth(options), den |-> w.sample_rate]

\* (i as f64 * seconds_per_window * 1000.0).round() as u64
WindowStartMs(i, spw) == RoundHalfAway(i * spw.num * 1000, spw.den)

\* KeyDuration::from_secs_f64(seconds_per_window), in whole microseconds
WindowDuration(spw) ==
    ((spw.num * 1000) \div spw.den) * UsPerMs
    + (((spw.num * 1000) % spw.den) * UsPerMs) \div spw.den

\* the frequency of the bucket that is hit, and the key it maps to
HitFrequency == Log440

\* keys.entry(key).or_default().add(press)
KeysEntryAdd(keys, key, press) ==
    IF key \in DOMAIN keys
    THEN [keys EXCEPT ![key] = KeyPressesAdd(@, press)]
    ELSE (key :> KeyPressesAdd(KeyPressesNew, press)) @@ keys

\* the presses analyze adds for window i
WindowPresses(keys, i, options, w) ==
    IF i \in w.hits /\ FromConcertPitch(HitFrequency) # None
    THEN KeysEntryAdd(keys, CHOOSE k \in FromConcertPitch(HitFrequency) : TRUE,
                      KeyPress(WindowStartMs(i, SecondsPerWindow(options, w)),
                               WindowDuration(SecondsPerWindow(options, w)), 1))
    ELSE keys

\* the thread publishes the key map while it is being built
SlotDuringShared(slot, keys) == Some(keys)

\* analyze works on its own map; the analysis slot is left alone
SlotDuring(slot, keys) == slot

\* inputs: waveform lengths and sample rates, and the option sets
Lens == {1000, 4096, 4196, 12000, 20480, 40960}
SampleRates == {8000, 44100}
OptionSets == {Options(f, wf, sf) : f \in {11, 14}, wf \in {1, 2}, sf \in {1, 2}}

\* hits are explored in the first MaxWindows windows
MaxWindows == 4

AnInit ==
    /\ waveform \in {Some(Waveform(l, r, h)) :
                        l \in Lens, r \in SampleRates, h \in SUBSET (0..(MaxWindows - 1))}
    /\ analysis_options \in OptionSets
    /\ TaskRest
    /\ status = "None"
    /\ an_pc = "idle"
    /\ an_i = 0
    /\ an_windows = 0
    /\ an_keys = NoKeys
    /\ an_writes = 0
    /\ an_before = None

\* what the analysis thread never touches
anOthers == <<kpVars, keyVars, now, connection, songVars, current_song, songs,
              clicks, edits, midiVars, owed, analysis_options, waveform, deVars>>

\* "Analyze" button: analyze_waveform spawns the thread
AnalyzeWaveform ==
    /\ an_pc = "idle"
    /\ waveform # None
    /\ an_pc' = "spawned"
    /\ an_before' = analysis
    /\ UNCHANGED <<anOthers, analysis, status, an_i, an_windows, an_keys, an_writes,
                   an_source, analysis_from>>

\* the thread up to the loop of analyze: status, waveform.read(), the windows
AnalyzeBegin ==
    /\ an_pc = "spawned"
    /\ status' = "Analyzing"
    /\ an_source' = waveform
    /\ IF waveform = None
       THEN /\ an_pc' = "returned"
            /\ UNCHANGED <<an_i, an_windows, an_keys>>
       ELSE LET w == CHOOSE x \in waveform : TRUE
                window_width == WindowWidth(analysis_options)
            IN  \E build \in Builds :
                   IF w.len < window_width /\ build = "debug"
                   THEN /\ an_pc' = "panicked"
                        /\ UNCHANGED <<an_i, an_windows, an_keys>>
                   ELSE /\ an_pc' = "windows"
                        /\ an_windows' = StepByLen(UsizeSub(w.len, window_width),
                                                   Step(analysis_options))
                        /\ an_i' = 0
                        /\ an_keys' = NoKeys
    /\ UNCHANGED <<anOthers, analysis, an_writes, an_before, analysis_from>>

\* one pass of the loop over the windows; waveform.slice panics when the
\* window does not lie within the waveform
AnalyzeWindow ==
    /\ an_pc = "windows"
    /\ an_i < an_windows
    /\ status' = "Analyzing"
    /\ LET w == CHOOSE x \in an_source : TRUE
           start == an_i * Step(analysis_options)
       IN  IF start + WindowWidth(analysis_options) > w.len
           THEN /\ an_pc' = "panicked"
                /\ UNCHANGED <<an_i, an_keys, analysis>>
           ELSE /\ an_keys' = WindowPresses(an_keys, an_i, analysis_options, w)
                /\ an_i' = an_i + 1
                /\ analysis' = SlotDuring(analysis, an_keys')
                /\ UNCHANGED an_pc
    /\ UNCHANGED <<anOthers, an_windows, an_writes, an_before, an_source, analysis_from>>

\* analyze returns (keys, image)
AnalyzeReturn ==
    /\ an_pc = "windows"
    /\ an_i = an_windows
    /\ an_pc' = "spectrogram"
    /\ status' = "GeneratingSpectrogram"
    /\ UNCHANGED <<anOthers, analysis, an_i, an_windows, an_keys, an_writes, an_before,
                   an_source, analysis_from>>

\* *analysis.write() = Some(AudioAnalysis { notes, spectrum })
AnalyzeStore ==
    /\ an_pc = "spectrogram"
    /\ an_pc' = "stored"
    /\ analysis' = Some(an_keys)
    /\ analysis_from' = an_source
    /\ an_writes' = an_writes + 1
    /\ UNCHANGED <<anOthers, status, an_i, an_windows, an_keys, an_before, an_source>>

\* status.store(TaskProgress::None)
AnalyzeFinish ==
    /\ an_pc = "stored"
    /\ an_pc' = "done"
    /\ status' = "None"
    /\ UNCHANGED <<anOthers, analysis, an_i, an_windows, an_keys, an_writes, an_before,
                   an_source, analysis_from>>

InitAnalyze ==
    KPRest /\ ExtendRest /\ AnInit /\ KeyRest /\ SchedRest({"Connected"}, {None, Some(SingleNotes)})

NextAnalyze ==
    \/ AnalyzeWaveform
    \/ AnalyzeBegin
    \/ AnalyzeWindow
    \/ AnalyzeReturn
    \/ AnalyzeStore
    \/ AnalyzeFinish

SpecAnalyze == InitAnalyze /\ [][NextAnalyze]_vars

\* the loaded waveform and what analyze derives from it
LoadedWaveform == CHOOSE w \in waveform : TRUE
LoadedSpw == SecondsPerWindow(analysis_options, LoadedWaveform)

\* analyze has returned its result
AnalyzeReturned == an_pc \in {"spectrogram", "stored", "done"}

\* window i was processed and the key was detected in it
Detected(i) == i \in 0..(an_windows - 1) /\ i \in LoadedWaveform.hits

\* i..j is a run of windows with the key detected, not part of a longer one
MaximalRun(i, j) ==
    /\ i <= j
    /\ \A k \in i..j : Detected(k)
    /\ ~Detected(i - 1)
    /\ ~Detected(j + 1)

\* C14: in the result of analyze, a key detected in every window of a run
\* i..j is stored as exactly one interval, which starts at window i's start
\* time and lasts j-i+1 window durations, whatever the window duration is.
C14_RunsCoalesced ==
    AnalyzeReturned =>
        \A i, j \in 0..(an_windows - 1) :
            MaximalRun(i, j) =>
                LET kl == an_keys[A4]
                    first == WindowStartMs(i, LoadedSpw)
                    last == WindowStartMs(j, LoadedSpw)
                IN  /\ first \in DOMAIN kl
                    /\ kl[first].duration = (j - i + 1) * WindowDuration(LoadedSpw)
                    /\ \A t \in DOMAIN kl : t # first => t < first \/ t > last

\* the length of the waveform minus the window width, when it is not negative
Slack == LoadedWaveform.len - WindowWidth(analysis_options)

\* analyze has computed its windows for a waveform of at least one window
WindowsKnown == an_pc \in {"windows", "spectrogram", "stored", "done"} /\ Slack >= 0

\* C15 as stated: analyze enumerates exactly floor((len - windowWidth) / step)
\* windows, for every len >= windowWidth and step >= 1.
C15_WindowCountFloor ==
    WindowsKnown => an_windows = Slack \div Step(analysis_options)

\* C15, amended: analyze enumerates exactly ceil((len - windowWidth) / step)
\* windows, the least count c with c * step >= len - windowWidth, the
\* spectrogram has that many columns, and the loop has passed over each of
\* them when analyze returns; for len = 4096 and windowWidth = step = 2048
\* that is 1 window.
C15_WindowCountCeil ==
    /\ WindowsKnown =>
          /\ an_windows * Step(analysis_options) >= Slack
          /\ (an_windows - 1) * Step(analysis_options) < Slack
          /\ an_i <= an_windows
    /\ WindowsKnown /\ AnalyzeReturned => an_i = an_windows
    /\ WindowsKnown /\ LoadedWaveform.len = 4096 /\ analysis_options = Options(11, 2, 2)
          => an_windows = 1

\* a waveform of 4196 samples, windows and steps of 2048: two windows
C15_Witness ==
    /\ waveform # None
    /\ LoadedWaveform.len = 4196
    /\ analysis_options = Options(11, 2, 2)
    /\ AnalyzeReturned
    /\ an_i = 2
    /\ an_windows = 2

\* the waveform is shorter than one analysis window
ShortWaveform == waveform # None /\ Slack < 0

\* C16: when the waveform is shorter than one window, analyze returns an
\* empty key map and a zero-column spectrogram instead of failing.
C16_ShortWaveformEmpty ==
    ShortWaveform /\ an_pc \notin {"idle", "spawned"} =>
        /\ an_pc # "panicked"
        /\ an_windows = 0
        /\ an_keys = NoKeys

\* the slot holds what it held at the spawn until the one write, and the
\* complete result afterwards
C17_Slot ==
    /\ an_writes <= 1
    /\ an_pc \in {"spawned", "windows", "spectrogram", "panicked", "returned"}
          => an_writes = 0 /\ analysis = an_before
    /\ an_pc \in {"stored", "done"}
          => an_writes = 1 /\ analysis = Some(an_keys) /\ an_i = an_windows

C17_Step ==
    analysis' # analysis \/ an_writes' # an_writes =>
        /\ an_pc = "spectrogram"
        /\ an_i = an_windows
        /\ analysis' = Some(an_keys)
        /\ an_keys' = an_keys
        /\ an_writes' = an_writes + 1

\* C17: an analysis task writes the analysis slot exactly once, after
\* analyze has returned the complete result; until then a reader finds the
\* value from before the task in the slot, never a partly built key map.
C17_SingleAtomicWrite == []C17_Slot /\ [][C17_Step]_vars

\* the result of three windows replaced an earlier analysis
C17_Witness ==
    /\ an_pc = "done"
    /\ an_writes = 1
    /\ an_before = Some(SingleNotes)
    /\ an_windows >= 3
    /\ A4 \in DOMAIN an_keys
    /\ analysis = Some(an_keys)

\* ------------------------------------------------------------ note numbers
\* C21: for every piano key k in 1..=88, MidiNote::from_piano_key(k) has the
\* note number k + 20, which lies in 21..=108: the assertion of
\* MidiNote::new holds, and the note byte of a NoteOn / NoteOff is below 128.
C21_NoteNumberFits ==
    /\ \A made \in midi_note :
          /\ made = Some(piano_key + 20)
          /\ piano_key + 20 \in 21..108
    /\ \A bytes \in midi_bytes :
          /\ bytes[1] \in {144, 128}
          /\ bytes[2] = piano_key + 20
          /\ bytes[2] < 128

\* the highest key was sent as a NoteOn
C21_Witness ==
    /\ piano_key = MaxKey
    /\ midi_note = Some(Some(108))
    /\ midi_bytes = Some(<<144, 108, 127>>)

\* ------------------------------------------------------------------ remove
\* the step is a call of remove
RemoveCall == ops' = ops + 1 /\ lastOp'.op = "remove"

C22_Step ==
    RemoveCall =>
        /\ DOMAIN key_list' = DOMAIN key_list \ {lastOp'.press.start}
        /\ \A s \in DOMAIN key_list' : key_list'[s] = key_list[s]

\* C22: remove(p) deletes the stored interval whose start is p.start,
\* whatever p's duration or intensity, does nothing when no interval has
\* that start, and leaves every other stored interval unchanged.
C22_RemoveByStart == [][C22_Step]_vars

\* remove was called with a press of 50 ms and intensity 2 for the start 0,
\* where only presses of intensity 1 were added; the interval at 200 stays
C22_Witness ==
    /\ ops = 3
    /\ lastOp.op = "remove"
    /\ lastOp.press = KeyPress(0, Ms(50), 2)
    /\ KeyPressesIter(key_list) = {KeyPress(200, Ms(100), 1)}

\* ------------------------------------------------------ order of the events
\* the step sends the PlayNote of one more interval of session s
SessionFires(s) == song_fired'[s] # song_fired[s]

\* the interval session s fires in the step
FiredPair(s) == CHOOSE p \in song_fired'[s] : p \notin song_fired[s]

C23_Step ==
    \A s \in Sessions :
        SessionFires(s) =>
            \A q \in NotePairs(song_notes'[s]) :
                PlayDeadline(song_start[s], FiredPair(s).press)
                    <= PlayDeadline(song_start[s], q.press)

\* C23: a session sends its PlayNote commands, and so the NoteOn events, in
\* non-decreasing order of play-deadline across all keys: the interval it
\* fires is one with the earliest play-deadline among those it has left,
\* also when several play-deadlines are due at the same step.
C23_NoteOnDeadlineOrder == [][C23_Step]_vars

\* the pending entry whose NoteOff the step emits
EmittedEntry ==
    CHOOSE e \in note_off : wire' = Append(wire, Wire("NoteOff", e.note, 0))

C24_Step ==
    Len(wire') > Len(wire) /\ wire'[Len(wire')].cmd = "NoteOff" =>
        \A f \in note_off : EmittedEntry.deadline <= f.deadline

\* C24: NoteOff events are emitted in non-decreasing order of their
\* off-deadlines: the NoteOff emitted is that of a pending note with the
\* earliest deadline, also when several off-deadlines are due at once.
C24_NoteOffDeadlineOrder == [][C24_Step]_vars

\* C25: a session dispatches every interval of its snapshot exactly once:
\* no interval is sent twice (the intervals fired and those left are
\* disjoint and make up the snapshot, one PlayNote per fired interval), and
\* none is skipped (the executor never stops while a session that was not
\* cancelled has intervals left).
C25_EveryIntervalOnce ==
    \A s \in Sessions :
        song_pc[s] # "idle" =>
            /\ NotePairs(song_notes[s]) \cup song_fired[s] = NotePairs(song_snapshot[s])
            /\ NotePairs(song_notes[s]) \cap song_fired[s] = {}
            /\ SessionCommands(s) <= Cardinality(song_fired[s])
            /\ ~ExecutorAlive /\ ~song_cancel[s] => NotePairs(song_notes[s]) = {}

\* a NoteOn or NoteOff the step puts on the wire
Emits(cmd) == Len(wire') > Len(wire) /\ wire'[Len(wire')].cmd = cmd

C28_Counts ==
    \A e \in {wire[i] : i \in 1..Len(wire)} :
        WireCount("NoteOff", e.note) <= WireCount("NoteOn", e.note)

C28_Step ==
    Emits("NoteOff") =>
        /\ \E e \in note_off :
              /\ e.note = wire'[Len(wire')].note
              /\ e.deadline <= now
        /\ wire'[Len(wire')].note \notin NoteOffNotes(note_off')

\* C28: for each note the NoteOff events emitted so far are at most as many
\* as the NoteOn events; a NoteOff is emitted only for a note with a pending
\* off-deadline that has passed, and right after it the note has none.
C28_NoteOffNeedsNoteOn == []C28_Counts /\ [][C28_Step]_vars

\* two NoteOns of A4 shared one off-deadline and got one NoteOff
C28_Witness ==
    /\ WireCount("NoteOn", MidiNoteFromPianoKey(A4)) = 2
    /\ WireCount("NoteOff", MidiNoteFromPianoKey(A4)) = 1
    /\ wire[Len(wire)].cmd = "NoteOff"
    /\ note_off = {}

\* ------------------------------------------------------------ covered time
\* the milliseconds a press covers: [start, start + duration)
Span(kp) == kp.start..(EndMs(kp) - 1)

\* the milliseconds covered by the stored intervals
Covered(kl) == UNION {Span(kp) : kp \in KeyPressesIter(kl)}

\* the step is a call of add
AddCall == ops' = ops + 1 /\ lastOp'.op = "add"

C26_Step ==
    AddCall => (Covered(key_list) \cup Span(lastOp'.press)) \subseteq Covered(key_list')

\* C26: add never loses covered time: every millisecond covered before
\* add(p) is covered afterwards, and so is every millisecond of p's span,
\* also when p.start is the start of a stored interval.
C26_AddKeepsCoverage == [][C26_Step]_vars

\* ------------------------------------------------- the order of the adds
\* presses handed to extend
OrderStarts == {0, 100, 200, 300}
OrderDurations == {Ms(50), Ms(100)}
OrderPresses == {KeyPress(s, d, 1) : s \in OrderStarts, d \in OrderDurations}

\* presses with pairwise distinct starts
DistinctStarts(S) == \A p, q \in S : p.start = q.start => p = q

\* the orders in which an iterator can yield the presses S
Orders(S) ==
    {seq \in [1..Cardinality(S) -> S] :
        \A i, j \in 1..Cardinality(S) : seq[i] = seq[j] => i = j}

\* two empty KeyPresses, each about to be extended by the same presses
ExtendInit ==
    \E S \in SUBSET OrderPresses :
        /\ S # {}
        /\ Cardinality(S) <= MaxPresses
        /\ DistinctStarts(S)
        /\ \E a, b \in Orders(S) : extend_iter = <<a, b>>
        /\ extend_list = <<KeyPressesNew, KeyPressesNew>>

InitOrder == KPRest /\ ExtendInit /\ AnRest /\ KeyRest /\ SchedRest({"Connected"}, {None})

\* one turn of extend's loop: self.add(keypress) for the next press
ExtendAdd(i) ==
    /\ extend_iter[i] # <<>>
    /\ extend_list' = [extend_list EXCEPT ![i] = KeyPressesAdd(@, Head(extend_iter[i]))]
    /\ extend_iter' = [extend_iter EXCEPT ![i] = Tail(@)]
    /\ UNCHANGED <<key_list, ops, lastOp, schedVars, anVars, keyVars>>

ExtendFirst == ExtendAdd(1)

ExtendSecond == ExtendAdd(2)

NextOrder == ExtendFirst \/ ExtendSecond

SpecOrder == InitOrder /\ [][NextOrder]_vars

\* both KeyPresses have taken every press
ExtendDone == extend_iter = <<<<>>, <<>>>>

\* C27: adding presses with pairwise distinct starts to an empty KeyPresses
\* gives a result that does not depend on the order of the adds: two
\* KeyPresses built from the same presses in two orders store the same
\* intervals.
C27_OrderIndependent ==
    ExtendDone => KeyPressesIter(extend_list[1]) = KeyPressesIter(extend_list[2])

\* ------------------------------------------- decode, unload and analysis
\* the waveforms of the files: two of two windows, one shorter than a window
TaskWaveforms ==
    {Waveform(4196, 8000, {0}), Waveform(4196, 8000, {0, 1}), Waveform(1000, 8000, {})}

\* the application as constructed (the test pattern is shown, no waveform),
\* or after a file was decoded (its waveform is loaded, nothing is shown)
TaskInit ==
    /\ \/ waveform = None /\ analysis = Some(SingleNotes)
       \/ waveform \in {Some(w) : w \in TaskWaveforms} /\ analysis = None
    /\ analysis_options = Options(11, 2, 2)
    /\ TaskRest
    /\ status = "None"
    /\ an_pc = "idle"
    /\ an_i = 0
    /\ an_windows = 0
    /\ an_keys = NoKeys
    /\ an_writes = 0
    /\ an_before = None

InitTasks ==
    KPRest /\ ExtendRest /\ TaskInit /\ KeyRest
        /\ SchedRest({"Connected"}, {None, Some(SingleNotes)})

\* the guard is dropped as soon as analyze has returned
ReadGuardEarlyDrop == an_pc = "windows"

\* the analysis thread holds the guard of waveform.read() from the read to
\* the end of its closure
ReadGuardHeld == an_pc \in {"windows", "spectrogram", "stored"}

\* what neither the decode thread nor the Unload button touches
deOthers == <<kpVars, keyVars, now, connection, songVars, current_song, songs,
              clicks, edits, midiVars, owed, analysis_options, an_pc, an_i,
              an_windows, an_keys, an_writes, an_before, an_source>>

\* open_file_inner: the decoder is created and the file-decode thread spawned
OpenFile ==
    /\ de_pc = "idle"
    /\ de_pc' = "spawned"
    /\ de_new' \in {Some(w) : w \in TaskWaveforms}
    /\ UNCHANGED <<deOthers, waveform, analysis, analysis_from, status>>

\* status.store(TaskProgress::Decoding(0.0))
DecodeBegin ==
    /\ de_pc = "spawned"
    /\ de_pc' = "decoding"
    /\ status' = "Decoding"
    /\ UNCHANGED <<deOthers, waveform, analysis, analysis_from, de_new>>

\* decoder.decode(..): the progress callback stores Decoding(progress)
DecodeDecode ==
    /\ de_pc = "decoding"
    /\ de_pc' = "decoded"
    /\ status' = "Decoding"
    /\ UNCHANGED <<deOthers, waveform, analysis, analysis_from, de_new>>

\* *waveform.write() = Some(new_waveform): waits while a read guard is held
DecodeLoad ==
    /\ de_pc = "decoded"
    /\ ~ReadGuardHeld
    /\ de_pc' = "loaded"
    /\ waveform' = de_new
    /\ UNCHANGED <<deOthers, analysis, analysis_from, status, de_new>>

\* *analysis.write() = None
DecodeClear ==
    /\ de_pc = "loaded"
    /\ de_pc' = "cleared"
    /\ analysis' = None
    /\ analysis_from' = None
    /\ UNCHANGED <<deOthers, waveform, status, de_new>>

\* status.store(TaskProgress::None)
DecodeFinish ==
    /\ de_pc = "cleared"
    /\ de_pc' = "done"
    /\ status' = "None"
    /\ UNCHANGED <<deOthers, waveform, analysis, analysis_from, de_new>>

\* "Unload" button of the waveform: enabled while a waveform is loaded; the
\* write waits while a read guard is held
WaveformUnload ==
    /\ waveform # None
    /\ ~ReadGuardHeld
    /\ waveform' = None
    /\ analysis' = None
    /\ analysis_from' = None
    /\ UNCHANGED <<deOthers, status, deVars>>

NextTasks ==
    \/ OpenFile
    \/ DecodeBegin
    \/ DecodeDecode
    \/ DecodeLoad
    \/ DecodeClear
    \/ DecodeFinish
    \/ WaveformUnload
    \/ AnalyzeWaveform
    \/ AnalyzeBegin
    \/ AnalyzeWindow
    \/ AnalyzeReturn
    \/ AnalyzeStore
    \/ AnalyzeFinish

SpecTasks == InitTasks /\ [][NextTasks]_vars

\* the closure of the analysis thread has returned
ClosureReturned == an_pc \in {"done", "returned"}

\* the decode thread is between its spawn and its end
DecodeRunning == de_pc \notin {"idle", "done"}

\* C29: every analysis task stores TaskProgress::None as its last status
\* write, so once the task's closure has returned and no task is running
\* the status is None, also when the waveform was unloaded between the
\* click on Analyze and the task's read of the waveform.
C29_StatusClearedAtEnd ==
    ClosureReturned /\ ~DecodeRunning => status = "None"

\* C30: once the decode has finished and no analysis task is running, the
\* analysis slot is None or holds a result computed from the waveform that
\* is loaded now, under every interleaving of the two threads.
C30_NoStaleResult ==
    de_pc = "done" /\ an_pc \in {"idle", "done", "returned", "panicked"} =>
        \/ analysis = None
        \/ analysis_from # None /\ analysis_from = waveform

\* the decode of another file finished after the analysis of the first had
\* stored its result: the result is gone
C30_Witness ==
    /\ de_pc = "done"
    /\ an_pc = "done"
    /\ an_writes = 1
    /\ an_source # waveform
    /\ analysis = None

====
